---- MODULE Spec2Model ----
(***************************************************************************)
(* Model of the retail-sales dashboard pipeline of src/src/app.py:         *)
(* connect_to_database (load + referential validation) and the Dash        *)
(* callback update_dashboard (filter, join, time-series grid, grouped      *)
(* views, scalars, error handler).                                         *)
(*                                                                         *)
(* Encoding of values                                                      *)
(*   - a calendar day is a day number 1..MaxDate; NoDate stands for a      *)
(*     date-picker bound that is None;                                     *)
(*   - Category and Location labels are natural numbers standing for the   *)
(*     labels in their sort order (label k sorts before label k+1);        *)
(*   - a DataFrame is the sequence of its rows, a row is a record;         *)
(*   - the Products table carries the Price column the callback reads as   *)
(*     merged_data['Price']; a workbook whose rows have a Price column of  *)
(*     their own is a row record with a Price field, and the merge then    *)
(*     yields the two columns Price_x and Price_y (pandas' suffixes);      *)
(*   - a figure is the record of its title and of the rows drawn in it.    *)
(***************************************************************************)
EXTENDS Integers, Sequences, FiniteSets, TLC

\* ------------------------------------------------------------- bounds
MaxDate == 3
MaxSales == 2
MaxQty == 1
MaxID == 2
NumCategories == 2
\* bounds of the by-location scenario (SpecLoc)
NumLocations == 6
LocMaxQty == 1
\* bound of the signed-quantity scenario (SpecNeg): quantities down to -NegQty
NegQty == 1
\* bound of the priced-workbook scenario (SpecPriced): sale prices 1..MaxSalePrice
MaxSalePrice == 2

\* ------------------------------------------------- program constants
NoDate == 0
TopN == 5
NaN == -999

VARIABLES
    customers_db,         \* SQL table Customers
    products_db,          \* SQL table Products
    sales_xlsx,           \* rows of data/sales_data.xlsx
    start_date,           \* 'date-range'.start_date
    end_date,             \* 'date-range'.end_date
    selected_categories,  \* 'category-filter'.value ({} for None or [])
    pc,                   \* how the last update_dashboard invocation ended
    sales_df,             \* the last invocation's validated sales (line 449)
    invalid_count,        \* the last invocation's drop count (line 81)
    merged_data,          \* the last invocation's filtered merged dataset
    out                   \* the tuple the last invocation returned

vars == <<customers_db, products_db, sales_xlsx, start_date, end_date,
          selected_categories, pc, sales_df, invalid_count, merged_data, out>>

\* ------------------------------------------------------- input domains
Dates == 1..MaxDate
DateOpts == {NoDate} \cup Dates
Categories == 1..NumCategories
CategorySelections == SUBSET Categories

CustomerRow(c) == [CustomerID |-> c, Location |-> c]
ProductRow(p) ==
    [ProductID |-> p, Category |-> ((p - 1) % NumCategories) + 1, Price |-> p + 1]

\* the master tables hold the ids 1..k; a sale naming a larger id is a
\* referential-integrity violation
CustomerTable(k) == {CustomerRow(c) : c \in 1..k}
ProductTable(k) == {ProductRow(p) : p \in 1..k}

SaleRows ==
    [Date : Dates, CustomerID : 1..MaxID, ProductID : 1..MaxID,
     QuantitySold : 0..MaxQty]

\* ------------------------------------------------------ small helpers
Min(S) == CHOOSE x \in S : \A y \in S : x <= y
Max(S) == CHOOSE x \in S : \A y \in S : x >= y

RECURSIVE SetToSortedSeq(_)
SetToSortedSeq(S) ==
    IF S = {} THEN <<>>
    ELSE LET m == Min(S) IN <<m>> \o SetToSortedSeq(S \ {m})

Range(s) == {s[i] : i \in 1..Len(s)}

RECURSIVE SumQuantity(_)
SumQuantity(rows) ==
    IF rows = <<>> THEN 0
    ELSE Head(rows).QuantitySold + SumQuantity(Tail(rows))

\* (x * merged_data.loc[x.index, 'QuantitySold']).sum(): per-row products
LineRevenue(r) == r.QuantitySold * r.Price

RECURSIVE SumRevenue(_)
SumRevenue(rows) ==
    IF rows = <<>> THEN 0
    ELSE LineRevenue(Head(rows)) + SumRevenue(Tail(rows))

\* ------------------------------------------------ connect_to_database
\* variant: a row is kept when either reference resolves
IsValidSale_EitherKey(r, cdb, pdb) ==
    \/ r.CustomerID \in {c.CustomerID : c \in cdb}
    \/ r.ProductID \in {p.ProductID : p \in pdb}

IsValidSale(r, cdb, pdb) ==
    /\ r.CustomerID \in {c.CustomerID : c \in cdb}
    /\ r.ProductID \in {p.ProductID : p \in pdb}

ValidSales(xlsx, cdb, pdb) ==
    SelectSeq(xlsx, LAMBDA r : IsValidSale(r, cdb, pdb))

InvalidCount(xlsx, cdb, pdb) ==
    Len(xlsx) - Len(ValidSales(xlsx, cdb, pdb))

\* sort_values('Date'): rows in Date order, file order kept within a day
RECURSIVE InsertByDate(_, _)
InsertByDate(r, s) ==
    IF s = <<>> THEN <<r>>
    ELSE IF Head(s).Date <= r.Date THEN <<Head(s)>> \o InsertByDate(r, Tail(s))
    ELSE <<r>> \o s

RECURSIVE SortByDate(_)
SortByDate(s) ==
    IF s = <<>> THEN <<>>
    ELSE InsertByDate(s[Len(s)], SortByDate(SubSeq(s, 1, Len(s) - 1)))

ConnectSales(xlsx, cdb, pdb) == SortByDate(ValidSales(xlsx, cdb, pdb))

\* -------------------------------------------------- update_dashboard
\* lines 466-473: the date filter runs only when both bounds are truthy
DateFilter(sales, s, e) ==
    IF s # NoDate /\ e # NoDate
    THEN SelectSeq(sales, LAMBDA r : r.Date >= s /\ r.Date <= e)
    ELSE sales

\* lines 477-478: left merges on CustomerID, then on ProductID
CustomerOf(r, cdb) == {c \in cdb : c.CustomerID = r.CustomerID}
ProductOf(r, pdb) == {p \in pdb : p.ProductID = r.ProductID}

\* A column both frames have and that is not the join key comes out twice,
\* as Price_x (left frame, the sale) and Price_y (right frame, the product).
MergeRow(r, cdb, pdb) ==
    LET cs == CustomerOf(r, cdb)
        ps == ProductOf(r, pdb)
        location == IF cs = {} THEN NaN ELSE (CHOOSE c \in cs : TRUE).Location
        category == IF ps = {} THEN NaN ELSE (CHOOSE p \in ps : TRUE).Category
        price == IF ps = {} THEN NaN ELSE (CHOOSE p \in ps : TRUE).Price
    IN IF "Price" \in DOMAIN r
       THEN [Date |-> r.Date, CustomerID |-> r.CustomerID,
             ProductID |-> r.ProductID, QuantitySold |-> r.QuantitySold,
             Location |-> location, Category |-> category,
             Price_x |-> r.Price, Price_y |-> price]
       ELSE [Date |-> r.Date, CustomerID |-> r.CustomerID,
             ProductID |-> r.ProductID, QuantitySold |-> r.QuantitySold,
             Location |-> location, Category |-> category, Price |-> price]

Merge(sales, cdb, pdb) == [i \in 1..Len(sales) |-> MergeRow(sales[i], cdb, pdb)]

\* variant: the selection is never applied
CategoryFilter_Ignored(m, sel) == m

\* lines 482-483: the category filter runs only for a non-empty selection
CategoryFilter(m, sel) ==
    IF sel # {} THEN SelectSeq(m, LAMBDA r : r.Category \in sel) ELSE m

FilteredMerged(sales, cdb, pdb, s, e, sel) ==
    CategoryFilter(Merge(DateFilter(sales, s, e), cdb, pdb), sel)

\* line 486: merged_data['Price'] raises KeyError when the merged frame has
\* no column of that name (it has Price_x and Price_y instead)
PriceKeyError(m) == m # <<>> /\ "Price" \notin DOMAIN m[1]

\* variant: total quantity times one unit price
TotalRevenue_QuantityTimesPrice(m) ==
    IF m = <<>> THEN 0 ELSE SumQuantity(m) * m[1].Price

\* line 486
TotalRevenue(m) == SumRevenue(m)

\* variant: the grid spans the calendar of the date picker's defaults
\* (lines 347-348) instead of the observed dates
AllDates_PickerRange(m) == SetToSortedSeq(Dates)

\* lines 502-506: pd.date_range(start=min, end=max, freq='D'); on an empty
\* frame min and max are NaT and date_range raises ValueError
DateRangeRaises(m) == m = <<>>
\* variant: only the days that have sales
AllDates_ObservedOnly(m) == SetToSortedSeq({r.Date : r \in Range(m)})

AllDates(m) ==
    LET ds == {r.Date : r \in Range(m)} IN SetToSortedSeq(Min(ds)..Max(ds))

\* line 507 (the grid is sorted by Category at line 535)
AllCategories(m) == SetToSortedSeq({r.Category : r \in Range(m)})

\* lines 519-522: one row per (Date, Category) group that has sales rows
DailySales(m) ==
    {[Date |-> k[1], Category |-> k[2],
      QuantitySold |-> SumQuantity(SelectSeq(m, LAMBDA r : r.Date = k[1] /\ r.Category = k[2])),
      Price |-> SumRevenue(SelectSeq(m, LAMBDA r : r.Date = k[1] /\ r.Category = k[2]))]
     : k \in {<<r.Date, r.Category>> : r \in Range(m)}}

\* lines 525-529: left merge of the skeleton with daily_sales
LeftMergeCell(d, c, daily) ==
    LET g == {x \in daily : x.Date = d /\ x.Category = c}
    IN IF g = {}
       THEN [Date |-> d, Category |-> c, QuantitySold |-> NaN, Price |-> NaN]
       ELSE CHOOSE x \in g : TRUE

\* variant: the fill is skipped
FillNa_Skipped(row) == row

\* line 532
FillNa(row) ==
    [row EXCEPT !.QuantitySold = IF @ = NaN THEN 0 ELSE @,
                !.Price = IF @ = NaN THEN 0 ELSE @]

\* lines 510-535: skeleton dates x categories, merged, filled, sorted by
\* Date then Category
TrendsData(m) ==
    LET dates == AllDates(m)
        cats == AllCategories(m)
        nc == Len(cats)
        daily == DailySales(m)
    IN [i \in 1..(Len(dates) * nc) |->
          FillNa(LeftMergeCell(dates[((i - 1) \div nc) + 1],
                               cats[((i - 1) % nc) + 1], daily))]

\* lines 598-601: groupby('Location'), group keys in ascending order
LocationData(m) ==
    LET locs == SetToSortedSeq({r.Location : r \in Range(m)})
    IN [i \in 1..Len(locs) |->
          LET rows == SelectSeq(m, LAMBDA r : r.Location = locs[i])
          IN [Location |-> locs[i], QuantitySold |-> SumQuantity(rows),
              Price |-> SumRevenue(rows)]]

\* variant: keep='last', the last occurrence among equal values
FirstLargest_KeepLast(rows) ==
    CHOOSE i \in 1..Len(rows) :
        /\ \A j \in 1..Len(rows) : rows[j].Price <= rows[i].Price
        /\ \A j \in (i + 1)..Len(rows) : rows[j].Price < rows[i].Price

\* index of the row nlargest takes next: the largest Price, and under
\* keep='first' the first occurrence among equal values
FirstLargest(rows) ==
    CHOOSE i \in 1..Len(rows) :
        /\ \A j \in 1..Len(rows) : rows[j].Price <= rows[i].Price
        /\ \A j \in 1..(i - 1) : rows[j].Price < rows[i].Price

RemoveAt(s, i) == SubSeq(s, 1, i - 1) \o SubSeq(s, i + 1, Len(s))

\* line 602: DataFrame.nlargest(n, 'Price'), keep='first'
RECURSIVE NLargest(_, _)
NLargest(n, rows) ==
    IF n = 0 \/ rows = <<>> THEN <<>>
    ELSE LET i == FirstLargest(rows)
         IN <<rows[i]>> \o NLargest(n - 1, RemoveAt(rows, i))

TopLocations(m) == NLargest(TopN, LocationData(m))

\* lines 619-622
CategoryData(m) ==
    LET cats == SetToSortedSeq({r.Category : r \in Range(m)})
    IN [i \in 1..Len(cats) |->
          LET rows == SelectSeq(m, LAMBDA r : r.Category = cats[i])
          IN [Category |-> cats[i], QuantitySold |-> SumQuantity(rows),
              Price |-> SumRevenue(rows)]]

\* line 635: numpy scalar division a / b; 0/0 is nan, x/0 is +-inf, and
\* neither raises. A finite quotient is kept as the exact fraction num/den.
Divide(a, b) ==
    IF b # 0 THEN [kind |-> "num", num |-> a, den |-> b]
    ELSE IF a = 0 THEN [kind |-> "nan", num |-> 0, den |-> 0]
    ELSE [kind |-> "inf", num |-> a, den |-> 0]

\* lines 633-636
PatternData(m) ==
    LET ids == SetToSortedSeq({r.CustomerID : r \in Range(m)})
    IN [i \in 1..Len(ids) |->
          LET rows == SelectSeq(m, LAMBDA r : r.CustomerID = ids[i])
          IN [CustomerID |-> ids[i], QuantitySold |-> SumQuantity(rows),
              Price |-> Divide(SumRevenue(rows), SumQuantity(rows))]]

\* lines 651-652
CategoryOptions(pdb) == SetToSortedSeq({p.Category : p \in pdb})

Fig(title, data) == [title |-> title, data |-> data]
Scalar(v) == [error |-> FALSE, value |-> v]

\* lines 672-675: what the except handler returns
EmptyFig == Fig("No data available", <<>>)
ErrorScalar == [error |-> TRUE, value |-> 0]
\* variant: the handler leaves the trend figure as it was (dash.no_update)
ErrorOutput_KeepsFigure ==
    [fig1 |-> out.fig1, fig2 |-> EmptyFig, fig3 |-> EmptyFig, fig4 |-> EmptyFig,
     total_revenue |-> ErrorScalar, total_customers |-> ErrorScalar,
     total_products |-> ErrorScalar, category_options |-> <<>>,
     last_updated |-> "Error: Failed to load data"]

ErrorOutput ==
    [fig1 |-> EmptyFig, fig2 |-> EmptyFig, fig3 |-> EmptyFig, fig4 |-> EmptyFig,
     total_revenue |-> ErrorScalar, total_customers |-> ErrorScalar,
     total_products |-> ErrorScalar, category_options |-> <<>>,
     last_updated |-> "Error: Failed to load data"]

\* variant: the counts of create_visualizations (lines 124-125), the
\* customers and products that appear in the merged dataset
Dashboard_ActiveCounts(m, cdb, pdb) ==
    [fig1 |-> Fig("Sales Trends by Category", TrendsData(m)),
     fig2 |-> Fig("Top 5 Locations by Revenue", TopLocations(m)),
     fig3 |-> Fig("Revenue Distribution by Category", CategoryData(m)),
     fig4 |-> Fig("Customer Purchase Patterns", PatternData(m)),
     total_revenue |-> Scalar(TotalRevenue(m)),
     total_customers |-> Scalar(Cardinality({r.CustomerID : r \in Range(m)})),
     total_products |-> Scalar(Cardinality({r.ProductID : r \in Range(m)})),
     category_options |-> CategoryOptions(pdb),
     last_updated |-> "Last updated"]

\* lines 486-664: what the try block returns
Dashboard(m, cdb, pdb) ==
    [fig1 |-> Fig("Sales Trends by Category", TrendsData(m)),
     fig2 |-> Fig("Top 5 Locations by Revenue", TopLocations(m)),
     fig3 |-> Fig("Revenue Distribution by Category", CategoryData(m)),
     fig4 |-> Fig("Customer Purchase Patterns", PatternData(m)),
     total_revenue |-> Scalar(TotalRevenue(m)),
     total_customers |-> Scalar(Cardinality(cdb)),
     total_products |-> Scalar(Cardinality(pdb)),
     category_options |-> CategoryOptions(pdb),
     last_updated |-> "Last updated"]

\* nothing rendered before the first callback
NoOutput ==
    [fig1 |-> Fig("", <<>>), fig2 |-> Fig("", <<>>), fig3 |-> Fig("", <<>>),
     fig4 |-> Fig("", <<>>),
     total_revenue |-> Scalar(0), total_customers |-> Scalar(0),
     total_products |-> Scalar(0), category_options |-> <<>>,
     last_updated |-> ""]

\* One invocation of update_dashboard(s, e, sel, n_intervals), whole:
\* source_ok is whether connect_to_database returned (SQL Server reachable
\* and the workbook readable) or raised.
UpdateDashboard(s, e, sel, source_ok) ==
    LET sdf == ConnectSales(sales_xlsx, customers_db, products_db)
        m == FilteredMerged(sdf, customers_db, products_db, s, e, sel)
    IN /\ start_date' = s
       /\ end_date' = e
       /\ selected_categories' = sel
       /\ UNCHANGED <<customers_db, products_db, sales_xlsx>>
       /\ IF ~source_ok
          THEN /\ pc' = "source_unavailable"
               /\ sales_df' = <<>>
               /\ invalid_count' = 0
               /\ merged_data' = <<>>
               /\ out' = ErrorOutput
          ELSE /\ sales_df' = sdf
               /\ invalid_count' = InvalidCount(sales_xlsx, customers_db, products_db)
               /\ merged_data' = m
               /\ IF PriceKeyError(m) \/ DateRangeRaises(m)
                  THEN pc' = "raised" /\ out' = ErrorOutput
                  ELSE pc' = "returned" /\ out' = Dashboard(m, customers_db, products_db)

\* ------------------------------------------------------------ actions
\* the Dash inputs of the callback (lines 436-439), one action per input
ChangeStartDate(d) ==
    \E ok \in BOOLEAN : UpdateDashboard(d, end_date, selected_categories, ok)

ChangeEndDate(d) ==
    \E ok \in BOOLEAN : UpdateDashboard(start_date, d, selected_categories, ok)

\* the dropdown offers the options the last invocation returned (line 434)
ChangeCategories(sel) ==
    /\ sel \subseteq Range(out.category_options)
    /\ \E ok \in BOOLEAN : UpdateDashboard(start_date, end_date, sel, ok)

IntervalTick ==
    \E ok \in BOOLEAN :
        UpdateDashboard(start_date, end_date, selected_categories, ok)

\* A row is added to the workbook between two invocations. The workbook is
\* kept as a ledger, rows in date order (the order line 89 restores anyway;
\* every view groups and sorts, so no output depends on the file order).
RecordSale(r) ==
    /\ Len(sales_xlsx) < MaxSales
    /\ sales_xlsx # <<>> => sales_xlsx[Len(sales_xlsx)].Date <= r.Date
    /\ sales_xlsx' = Append(sales_xlsx, r)
    /\ UNCHANGED <<customers_db, products_db, start_date, end_date,
                   selected_categories, pc, sales_df, invalid_count,
                   merged_data, out>>

Init ==
    /\ \E k \in 1..MaxID :
          /\ customers_db = CustomerTable(k)
          /\ products_db = ProductTable(k)
    /\ sales_xlsx = <<>>
    /\ start_date = 1
    /\ end_date = MaxDate
    /\ selected_categories = {}
    /\ pc = "idle"
    /\ sales_df = <<>>
    /\ invalid_count = 0
    /\ merged_data = <<>>
    /\ out = NoOutput

Next ==
    \/ \E d \in DateOpts : ChangeStartDate(d)
    \/ \E d \in DateOpts : ChangeEndDate(d)
    \/ \E sel \in CategorySelections : ChangeCategories(sel)
    \/ IntervalTick
    \/ \E r \in SaleRows : RecordSale(r)

Spec == Init /\ [][Next]_vars

\* By-location scenario: more locations than the view keeps. One customer
\* per location, one sale per customer, any quantities.
LocSales(q) ==
    [i \in 1..NumLocations |->
        [Date |-> ((NumLocations - i) % MaxDate) + 1, CustomerID |-> i,
         ProductID |-> 1, QuantitySold |-> q[i]]]

InitLoc ==
    /\ customers_db = CustomerTable(NumLocations)
    /\ products_db = ProductTable(1)
    /\ \E q \in [1..NumLocations -> 0..LocMaxQty] :
          sales_xlsx = SortByDate(LocSales(q))
    /\ start_date = 1
    /\ end_date = MaxDate
    /\ selected_categories = {}
    /\ pc = "idle"
    /\ sales_df = <<>>
    /\ invalid_count = 0
    /\ merged_data = <<>>
    /\ out = NoOutput

NextLoc ==
    \/ IntervalTick
    \/ \E d \in DateOpts : ChangeEndDate(d)
    \/ \E sel \in CategorySelections : ChangeCategories(sel)

SpecLoc == InitLoc /\ [][NextLoc]_vars

\* Signed-quantity scenario: the workbook cells of QuantitySold are read as
\* they are (pd.read_excel, line 65), so a row may carry a negative number.
SignedSaleRows ==
    [Date : Dates, CustomerID : 1..MaxID, ProductID : 1..MaxID,
     QuantitySold : (0 - NegQty)..MaxQty]

InitNeg ==
    /\ customers_db = CustomerTable(MaxID)
    /\ products_db = ProductTable(MaxID)
    /\ sales_xlsx = <<>>
    /\ start_date = 1
    /\ end_date = MaxDate
    /\ selected_categories = {}
    /\ pc = "idle"
    /\ sales_df = <<>>
    /\ invalid_count = 0
    /\ merged_data = <<>>
    /\ out = NoOutput

NextNeg ==
    \/ IntervalTick
    \/ \E sel \in CategorySelections : ChangeCategories(sel)
    \/ \E r \in SignedSaleRows : RecordSale(r)

SpecNeg == InitNeg /\ [][NextNeg]_vars

\* Priced-workbook scenario: every row of the workbook has a Price column,
\* the unit price at the time of the sale, beside the Price of Products.
PricedSaleRows ==
    [Date : Dates, CustomerID : 1..MaxID, ProductID : 1..MaxID,
     QuantitySold : 0..MaxQty, Price : 1..MaxSalePrice]

InitPriced ==
    /\ customers_db = CustomerTable(MaxID)
    /\ products_db = ProductTable(MaxID)
    /\ sales_xlsx = <<>>
    /\ start_date = 1
    /\ end_date = MaxDate
    /\ selected_categories = {}
    /\ pc = "idle"
    /\ sales_df = <<>>
    /\ invalid_count = 0
    /\ merged_data = <<>>
    /\ out = NoOutput

\* (no run of this scenario returns category options, so the dropdown has
\* nothing to select)
NextPriced ==
    \/ IntervalTick
    \/ \E d \in DateOpts : ChangeStartDate(d)
    \/ \E r \in PricedSaleRows : RecordSale(r)

SpecPriced == InitPriced /\ [][NextPriced]_vars

\* ============================================================ claims
Returned == pc = "returned"
Loaded == pc \in {"returned", "raised"}
Grid == out.fig1.data
MergedDates == {r.Date : r \in Range(merged_data)}
MergedCategories == {r.Category : r \in Range(merged_data)}
MergedLocations == {r.Location : r \in Range(merged_data)}
CellRows(d, c) == SelectSeq(merged_data, LAMBDA r : r.Date = d /\ r.Category = c)

RECURSIVE SumPrice(_)
SumPrice(rows) ==
    IF rows = <<>> THEN 0 ELSE Head(rows).Price + SumPrice(Tail(rows))

Count(r, s) == Cardinality({i \in 1..Len(s) : s[i] = r})

\* C1: after a successful update_dashboard run the grid has exactly one row
\* for every (day, category) with day in [min Date, max Date] of the
\* filtered merged dataset and category among its distinct categories, and
\* its row count is (days in the range) x (distinct categories).
C1_GridComplete ==
    Returned =>
        LET lo == Min(MergedDates)
            hi == Max(MergedDates)
        IN /\ Len(Grid) = (hi - lo + 1) * Cardinality(MergedCategories)
           /\ \A d \in lo..hi : \A c \in MergedCategories :
                Cardinality({i \in 1..Len(Grid) :
                                Grid[i].Date = d /\ Grid[i].Category = c}) = 1

\* a run whose data leave a day without any sale, over two categories
C1_Witness ==
    /\ Returned
    /\ Cardinality(MergedCategories) = 2
    /\ MergedDates = {1, 3}
    /\ Len(Grid) = 6

\* C2: a grid cell without matching rows of the filtered merged dataset has
\* QuantitySold = 0 and Revenue = 0 (not a missing value); a cell with
\* matching rows has the sum of their quantities and of their per-row
\* QuantitySold x Price products.
C2_ZeroFill ==
    Returned =>
        \A i \in 1..Len(Grid) :
            LET rows == CellRows(Grid[i].Date, Grid[i].Category)
            IN /\ Grid[i].QuantitySold # NaN
               /\ Grid[i].Price # NaN
               /\ rows = <<>> => Grid[i].QuantitySold = 0 /\ Grid[i].Price = 0
               /\ rows # <<>> =>
                    /\ Grid[i].QuantitySold = SumQuantity(rows)
                    /\ Grid[i].Price = SumRevenue(rows)

\* a grid with a zero-filled cell beside a cell that has sales
C2_Witness ==
    /\ Returned
    /\ \E i \in 1..Len(Grid) :
          /\ CellRows(Grid[i].Date, Grid[i].Category) = <<>>
          /\ Grid[i].QuantitySold = 0
          /\ Grid[i].Price = 0
    /\ \E i \in 1..Len(Grid) :
          /\ CellRows(Grid[i].Date, Grid[i].Category) # <<>>
          /\ Grid[i].Price > 0

\* C3: revenue conservation: the Revenue of all grid cells, the per-row
\* QuantitySold x Price products of the filtered merged dataset and the
\* Revenue of the by-category table have the same sum, which is the
\* total-revenue scalar of a run that returns.
C3_RevenueConservation ==
    /\ Loaded =>
         /\ SumPrice(Grid) = SumRevenue(merged_data)
         /\ SumPrice(out.fig3.data) = SumRevenue(merged_data)
    /\ Returned =>
         /\ ~out.total_revenue.error
         /\ out.total_revenue.value = SumPrice(Grid)
         /\ out.total_revenue.value = SumPrice(out.fig3.data)

\* a run over rows of two categories with different unit prices
C3_Witness ==
    /\ Returned
    /\ Len(out.fig3.data) = 2
    /\ \A i \in 1..Len(merged_data) : merged_data[i].QuantitySold > 0
    /\ out.total_revenue.value > 0

\* one invocation that loaded its tables, seen as a step
C4_ValidatorStep ==
    (sales_xlsx' = sales_xlsx /\ pc' \in {"returned", "raised"}) =>
        /\ \A r \in Range(sales_xlsx) \cup Range(sales_df') :
              Count(r, sales_df') =
                  IF /\ \E c \in customers_db : c.CustomerID = r.CustomerID
                     /\ \E p \in products_db : p.ProductID = r.ProductID
                  THEN Count(r, sales_xlsx) ELSE 0
        /\ invalid_count' = Len(sales_xlsx) - Len(sales_df')
        /\ \A i \in 1..Len(merged_data') :
              /\ \E c \in customers_db : c.CustomerID = merged_data'[i].CustomerID
              /\ \E p \in products_db : p.ProductID = merged_data'[i].ProductID
        /\ Len(merged_data') <= Len(sales_df')

\* C4: the validator keeps a sales row iff its CustomerID is in the customer
\* table and its ProductID in the product table; no other row reaches the
\* merged dataset, and the drop count is the number of input rows minus the
\* number of rows kept.
C4_Validator == [][C4_ValidatorStep]_vars

\* a run that dropped one of two rows
C4_Witness ==
    /\ Returned
    /\ Len(sales_xlsx) = 2
    /\ invalid_count = 1
    /\ Len(sales_df) = 1
    /\ Len(merged_data) = 1

\* C5: with an empty filtered merged dataset update_dashboard does not end
\* in its error state: it returns an empty grid and a total revenue of zero.
C5_DegenerateRange ==
    (Loaded /\ merged_data = <<>>) =>
        /\ pc = "returned"
        /\ out.fig1.title # "No data available"
        /\ out.fig1.data = <<>>
        /\ ~out.total_revenue.error
        /\ out.total_revenue.value = 0

Figures == {out.fig1, out.fig2, out.fig3, out.fig4}
Scalars == {out.total_revenue, out.total_customers, out.total_products}

C6_AllOrNothingState ==
    /\ pc \in {"source_unavailable", "raised"} =>
          /\ Figures = {EmptyFig}
          /\ \A x \in Scalars : x.error
    /\ pc = "returned" =>
          /\ \A f \in Figures : f.title # "No data available"
          /\ \A x \in Scalars : ~x.error
          /\ out.fig1.data # <<>>

C6_FreshStep ==
    (sales_xlsx' = sales_xlsx /\ pc' = "returned") =>
        LET df == SelectSeq(sales_xlsx, LAMBDA r :
                      /\ \E c \in customers_db : c.CustomerID = r.CustomerID
                      /\ \E p \in products_db : p.ProductID = r.ProductID
                      /\ (start_date' # NoDate /\ end_date' # NoDate) =>
                            (start_date' <= r.Date /\ r.Date <= end_date')
                      /\ selected_categories' # {} =>
                            \E p \in products_db :
                               /\ p.ProductID = r.ProductID
                               /\ p.Category \in selected_categories')
        IN /\ Len(merged_data') = Len(df)
           /\ SumQuantity(out'.fig3.data) = SumQuantity(df)
           /\ SumQuantity(out'.fig2.data) = SumQuantity(df)
           /\ SumQuantity(out'.fig4.data) = SumQuantity(df)
           /\ SumQuantity(out'.fig1.data) = SumQuantity(df)
           /\ out'.total_revenue.value = SumPrice(out'.fig3.data)
           /\ out'.total_customers.value = Cardinality(customers_db)
           /\ out'.total_products.value = Cardinality(products_db)

\* C6: an invocation is all-or-nothing: when loading or a later stage fails
\* the four views are the "No data available" placeholder and the three
\* scalars the error value; otherwise none is, and views and scalars are
\* those of the tables as they are at this invocation.
C6_AllOrNothing == [](C6_AllOrNothingState) /\ [][C6_FreshStep]_vars

\* a failed invocation although the workbook holds a valid row
C6_Witness ==
    /\ pc = "source_unavailable"
    /\ out = ErrorOutput
    /\ \E i \in 1..Len(sales_xlsx) :
          IsValidSale(sales_xlsx[i], customers_db, products_db)

GridCategories == {Grid[i].Category : i \in 1..Len(Grid)}
CategoryOfSale(r) == (CHOOSE p \in products_db : p.ProductID = r.ProductID).Category

\* C7 as stated: for a non-empty selection S and any date range, the
\* categories in the grid are S intersected with the categories of the
\* unfiltered data.
C7_CategorySubset_Original ==
    (Returned /\ selected_categories # {}) =>
        GridCategories =
            selected_categories \cap {CategoryOfSale(r) : r \in Range(sales_df)}

DateFilteredSales ==
    {r \in Range(sales_df) :
        (start_date # NoDate /\ end_date # NoDate) =>
            (start_date <= r.Date /\ r.Date <= end_date)}

\* C7 amended: for a non-empty selection S the categories in the grid are S
\* intersected with the categories of the valid sales rows left by the
\* run's date filtering, whenever the run returns a grid.
C7_CategorySubset ==
    (Returned /\ selected_categories # {}) =>
        GridCategories =
            selected_categories \cap {CategoryOfSale(r) : r \in DateFilteredSales}

\* a selection of one category out of the two that have sales in range
C7_Witness ==
    /\ Returned
    /\ selected_categories = {1}
    /\ {CategoryOfSale(r) : r \in DateFilteredSales} = {1, 2}
    /\ GridCategories = {1}

Top == out.fig2.data
TopNames == {Top[i].Location : i \in 1..Len(Top)}
LocationRows(l) == SelectSeq(merged_data, LAMBDA r : r.Location = l)
RanksBefore(p1, l1, p2, l2) == p1 > p2 \/ (p1 = p2 /\ l1 < l2)

\* C8: the by-location view has min(5, distinct locations) rows, each the
\* sums of one Location, ordered by Revenue descending; among locations of
\* equal Revenue the smaller Location is ranked first and is the one kept
\* (also at the 5th place).
C8_TopLocations ==
    Returned =>
        /\ Len(Top) = IF Cardinality(MergedLocations) < TopN
                      THEN Cardinality(MergedLocations) ELSE TopN
        /\ \A i \in 1..Len(Top) :
              /\ Top[i].Location \in MergedLocations
              /\ Top[i].QuantitySold = SumQuantity(LocationRows(Top[i].Location))
              /\ Top[i].Price = SumRevenue(LocationRows(Top[i].Location))
        /\ \A i \in 1..Len(Top) : \A j \in (i + 1)..Len(Top) :
              RanksBefore(Top[i].Price, Top[i].Location, Top[j].Price, Top[j].Location)
        /\ \A l \in MergedLocations \ TopNames : \A i \in 1..Len(Top) :
              RanksBefore(Top[i].Price, Top[i].Location,
                          SumRevenue(LocationRows(l)), l)

\* more than five locations, and the one left out ties with the fifth
C8_Witness ==
    /\ Returned
    /\ Cardinality(MergedLocations) > TopN
    /\ Len(Top) = TopN
    /\ \E l \in MergedLocations \ TopNames :
          SumRevenue(LocationRows(l)) = Top[TopN].Price
    /\ \E i \in 1..(TopN - 1) : Top[i].Price = Top[i + 1].Price

Pattern == out.fig4.data
CustomerRows(c) == SelectSeq(merged_data, LAMBDA r : r.CustomerID = c)

\* C9: each customer's average spending per item is sum(QuantitySold x
\* Price) / sum(QuantitySold) over the customer's rows, and it is a defined
\* value also for a customer whose rows all have QuantitySold = 0.
C9_AverageSpendGuarded ==
    Returned =>
        \A i \in 1..Len(Pattern) :
            LET rows == CustomerRows(Pattern[i].CustomerID)
            IN /\ Pattern[i].QuantitySold = SumQuantity(rows)
               /\ Pattern[i].Price.kind = "num"
               /\ Pattern[i].Price.num * SumQuantity(rows)
                     = SumRevenue(rows) * Pattern[i].Price.den

InBounds(d) ==
    /\ start_date # NoDate => start_date <= d
    /\ end_date # NoDate => d <= end_date

SaleOf(m) ==
    [Date |-> m.Date, CustomerID |-> m.CustomerID, ProductID |-> m.ProductID,
     QuantitySold |-> m.QuantitySold]

\* C10: a date bound that is not supplied leaves its side unbounded, a
\* supplied one is applied (inclusive), also when it is the only one.
C10_DateBounds ==
    (Loaded /\ selected_categories = {}) =>
        \A r \in Range(sales_df) :
            Cardinality({i \in 1..Len(merged_data) : SaleOf(merged_data[i]) = r})
                = IF InBounds(r.Date) THEN Count(r, sales_df) ELSE 0

\* C11: a sales row with a negative QuantitySold is a validation failure:
\* no such row is among the validated sales, it is not kept as a row either
\* (clamped), and no quantity or revenue of the grid, of the grouped views
\* or of the total-revenue scalar is negative.
C11_NegativeQuantityRejected ==
    Loaded =>
        /\ \A i \in 1..Len(sales_df) : sales_df[i].QuantitySold >= 0
        /\ Len(sales_df) <=
              Cardinality({i \in 1..Len(sales_xlsx) :
                              sales_xlsx[i].QuantitySold >= 0})
        /\ Returned =>
              /\ out.total_revenue.value >= 0
              /\ \A f \in {out.fig1, out.fig2, out.fig3} :
                    \A i \in 1..Len(f.data) :
                        f.data[i].QuantitySold >= 0 /\ f.data[i].Price >= 0
              /\ \A i \in 1..Len(out.fig4.data) :
                    out.fig4.data[i].QuantitySold >= 0

\* C12: the customer and product counts a successful update_dashboard run
\* returns are the row counts of the unfiltered Customers and Products
\* tables, whatever the date range, the category selection and the ids that
\* appear in sales, and stay the same from one run to the next; the total
\* revenue is the sum over the filtered merged dataset.
C12_TotalsState ==
    Returned =>
        /\ out.total_customers = Scalar(Cardinality(customers_db))
        /\ out.total_products = Scalar(Cardinality(products_db))
        /\ out.total_revenue = Scalar(SumRevenue(merged_data))

C12_FilterStep ==
    (Returned /\ Returned') =>
        /\ out'.total_customers = out.total_customers
        /\ out'.total_products = out.total_products

C12_MasterTableCounts == [](C12_TotalsState) /\ [][C12_FilterStep]_vars

\* both filters cut rows away, and one customer and one product of the two
\* in the master tables have no sale in the merged dataset
C12_Witness ==
    /\ Returned
    /\ start_date > 1
    /\ selected_categories # {}
    /\ Len(merged_data) < Len(sales_xlsx)
    /\ Cardinality(customers_db) = 2
    /\ Cardinality(products_db) = 2
    /\ Cardinality({r.CustomerID : r \in Range(merged_data)}) = 1
    /\ Cardinality({r.ProductID : r \in Range(merged_data)}) = 1
    /\ out.total_customers.value = 2
    /\ out.total_products.value = 2
    /\ out.total_revenue.value > 0

RECURSIVE SumSalePriceRevenue(_)
SumSalePriceRevenue(rows) ==
    IF rows = <<>> THEN 0
    ELSE Head(rows).QuantitySold * Head(rows).Price_x
         + SumSalePriceRevenue(Tail(rows))

\* C13: when the sale rows carry their own Price beside the product's
\* Price, a run that loaded its data and kept at least one row returns, and
\* its revenue figures (total scalar, grid cells, by-category rows) are the
\* per-row sums of QuantitySold x the sale row's Price: the join neither
\* puts the product's price in its place nor makes the computation fail.
C13_SalePriceRevenue ==
    (Loaded /\ merged_data # <<>> /\ "Price_x" \in DOMAIN merged_data[1]) =>
        /\ Returned
        /\ out.total_revenue = Scalar(SumSalePriceRevenue(merged_data))
        /\ SumPrice(Grid) = SumSalePriceRevenue(merged_data)
        /\ SumPrice(out.fig3.data) = SumSalePriceRevenue(merged_data)

\* C14: the grid's days are exactly [earliest Date, latest Date] of the rows
\* that survive the date and category filters, not the caller's start_date
\* and end_date: a day inside the filter bounds but before the first or
\* after the last surviving sale has no grid row, for any category.
C14_GridRangeFromData ==
    Returned =>
        LET lo == Min(MergedDates)
            hi == Max(MergedDates)
        IN /\ {Grid[i].Date : i \in 1..Len(Grid)} = lo..hi
           /\ \A d \in Dates :
                (InBounds(d) /\ (d < lo \/ d > hi)) =>
                    \A i \in 1..Len(Grid) : Grid[i].Date # d

\* the caller asks for days 1..3, the surviving sales (two categories) are
\* all on day 2, and the grid has day 2 only
C14_Witness ==
    /\ Returned
    /\ start_date = 1
    /\ end_date = 3
    /\ MergedDates = {2}
    /\ Cardinality(MergedCategories) = 2
    /\ {Grid[i].Date : i \in 1..Len(Grid)} = {2}
    /\ Len(Grid) = 2

====
